---------------------------- MODULE Spec2Model ----------------------------
(***************************************************************************)
(* BM25 and TF-IDF document ranking (src/indexes/bm25, src/indexes/tf-idf). *)
(*                                                                         *)
(* One object is constructed and then driven by a caller that makes one    *)
(* call at a time: BM25Calculator, BM25DocumentRanker, TFIDFCalculator or  *)
(* DocumentRanker.  A call either returns a value or raises an exception;  *)
(* the fields it assigned before raising stay assigned.                    *)
(*                                                                         *)
(* Numbers.  A Python float is modelled as an exact rational <<n, d>> with *)
(* d > 0 in lowest terms.  math.log is tabulated (Ln) in tenths, so an IDF *)
(* and every score derived from it is a rational number of tenths.         *)
(* math.sqrt is avoided: a cosine similarity, which is never negative      *)
(* here, is carried as its square (order and equality are those of the     *)
(* similarity itself).                                                     *)
(*                                                                         *)
(* Text.  A string is a sequence of one-character strings, a token is a    *)
(* non-empty sequence of characters without whitespace.                    *)
(***************************************************************************)
EXTENDS Integers, Sequences, FiniteSets, TLC

(***************************************************************************)
(* Bounds of the model                                                     *)
(***************************************************************************)
\* longest corpus handed to fit
MaxDocs == 2
\* longest corpus handed to fit where only fit is called (SpecIdf)
MaxIdfDocs == 3

(***************************************************************************)
(* Rational arithmetic (Python float arithmetic, taken exactly)            *)
(***************************************************************************)
Abs(x) == IF x < 0 THEN -x ELSE x

RECURSIVE GCD(_, _)
GCD(x, y) == IF y = 0 THEN x ELSE GCD(y, x % y)

\* the rational n/d (d # 0) in lowest terms with a positive denominator
Rat(n, d) ==
    LET g == GCD(Abs(n), Abs(d))
        s == IF d < 0 THEN -1 ELSE 1
    IN  <<(s * n) \div g, (s * d) \div g>>

RInt(n) == <<n, 1>>
RZero == <<0, 1>>
ROne == <<1, 1>>
RIsZero(x) == x[1] = 0
RNeg(x) == <<-x[1], x[2]>>
RAdd(x, y) ==
    LET g == GCD(x[2], y[2])
    IN  Rat(x[1] * (y[2] \div g) + y[1] * (x[2] \div g), (x[2] \div g) * y[2])
RSub(x, y) == RAdd(x, RNeg(y))
RMul(x, y) ==
    LET a == Rat(x[1], y[2])
        c == Rat(y[1], x[2])
    IN  <<a[1] * c[1], a[2] * c[2]>>
\* x / y for y # 0 (the callers raise ZeroDivisionError before dividing by 0)
RDiv(x, y) == RMul(x, Rat(y[2], y[1]))

\* -1, 0, 1 as x < y, x = y, x > y; compares integer parts, then the
\* reciprocals of the fractional parts, so that no product is formed
RECURSIVE RCmp(_, _)
RCmp(x, y) ==
    LET qx == x[1] \div x[2]
        qy == y[1] \div y[2]
        rx == x[1] % x[2]
        ry == y[1] % y[2]
    IN  IF qx < qy THEN -1
        ELSE IF qx > qy THEN 1
        ELSE IF rx = 0 /\ ry = 0 THEN 0
        ELSE IF rx = 0 THEN -1
        ELSE IF ry = 0 THEN 1
        ELSE RCmp(<<y[2], ry>>, <<x[2], rx>>)

RLess(x, y) == RCmp(x, y) = -1
RLeq(x, y) == RCmp(x, y) # 1

\* math.log(n) for a positive integer n, in tenths, rounded
Ln == <<0, 7, 11, 14, 16, 18, 19, 21, 22, 23, 24, 25>>

\* math.log(n / d) in tenths for positive integers n, d: equal ratios get
\* equal logarithms, a ratio above 1 a positive one, below 1 a negative one
LogRatio(n, d) ==
    LET r == Rat(n, d)
    IN  RInt(Ln[r[1]] - Ln[r[2]])

(***************************************************************************)
(* Text: str.lower() and str.split()                                       *)
(***************************************************************************)
Chars == {"a", "b", "c", "A", "B", " "}
IsSpace(ch) == ch = " "
LowerChar(ch) == CASE ch = "A" -> "a" [] ch = "B" -> "b" [] OTHER -> ch
Lower(s) == [i \in 1..Len(s) |-> LowerChar(s[i])]

\* str.split(): the maximal runs of non-whitespace characters, in order
RECURSIVE SplitFrom(_, _, _)
SplitFrom(s, i, cur) ==
    IF i > Len(s)
    THEN IF cur = <<>> THEN <<>> ELSE <<cur>>
    ELSE IF IsSpace(s[i])
         THEN IF cur = <<>> THEN SplitFrom(s, i + 1, <<>>)
              ELSE <<cur>> \o SplitFrom(s, i + 1, <<>>)
         ELSE SplitFrom(s, i + 1, Append(cur, s[i]))
Split(s) == SplitFrom(s, 1, <<>>)

\* BM25Calculator.preprocess_text and TFIDFCalculator.preprocess_text
preprocess_text(text) == Split(Lower(text))

\* list.count(x) and set(list)
Count(seq, x) == Cardinality({i \in 1..Len(seq) : seq[i] = x})
Range(seq) == {seq[i] : i \in 1..Len(seq)}

\* collections.Counter(tokens): the tokens that occur, each with its count
Counter(tokens) == [t \in Range(tokens) |-> Count(tokens, t)]
\* dict.get(key, 0)
Get(d, key) == IF key \in DOMAIN d THEN d[key] ELSE 0

RECURSIVE SumSeq(_)
SumSeq(seq) == IF seq = <<>> THEN 0 ELSE Head(seq) + SumSeq(Tail(seq))

\* list[i] with Python's negative indices: the 1-based position, 0 for IndexError
PyIndex(seq, i) ==
    IF 0 <= i /\ i < Len(seq) THEN i + 1
    ELSE IF i < 0 /\ -i <= Len(seq) THEN Len(seq) + i + 1
    ELSE 0

\* An optional int: <<>> is None, <<k>> is the int k
None == <<>>
Some(k) == <<k>>

\* list[:k + 1] in the place of list[:k]: the slice one entry too long
SliceOneMore(seq, top_k) ==
    IF top_k = None THEN seq
    ELSE SubSeq(seq, 1, IF top_k[1] + 1 < Len(seq) THEN top_k[1] + 1 ELSE Len(seq))

\* list[:k]; None keeps the list, a negative k drops the last -k entries
Slice(seq, top_k) ==
    IF top_k = None THEN seq
    ELSE LET k == top_k[1]
         IN  IF k >= 0
             THEN SubSeq(seq, 1, IF k < Len(seq) THEN k ELSE Len(seq))
             ELSE SubSeq(seq, 1, IF Len(seq) + k > 0 THEN Len(seq) + k ELSE 0)

\* the outcome of a call: the value returned, or the exception raised
Return(v) == [exc |-> "none", val |-> v]
Raise(e) == [exc |-> e, val |-> <<>>]
\* the ValueError the classes raise themselves ("... must be fitted ...",
\* "Must call fit() ...") and the one min() and max() raise on an empty list
NotFitted == "ValueError: must be fitted"
EmptyMin == "ValueError: min() arg is an empty sequence"

\* list.sort(key=score, reverse=True): descending and stable, so entries with
\* equal scores keep the order they had.  Entries are tuples <<_, _, score>>
\* or <<_, score>>; key(e) is the score.
\* the insertion of a sort that is not stable: an entry goes before the
\* entries of equal score
RECURSIVE InsertDescTiesFirst(_, _, _)
InsertDescTiesFirst(sorted, e, k) ==
    IF sorted = <<>> THEN <<e>>
    ELSE IF RLeq(Head(sorted)[k], e[k])
         THEN <<e>> \o sorted
         ELSE <<Head(sorted)>> \o InsertDescTiesFirst(Tail(sorted), e, k)
RECURSIVE InsertDesc(_, _, _)
InsertDesc(sorted, e, k) ==
    IF sorted = <<>> THEN <<e>>
    ELSE IF RLess(Head(sorted)[k], e[k])
         THEN <<e>> \o sorted
         ELSE <<Head(sorted)>> \o InsertDesc(Tail(sorted), e, k)
RECURSIVE SortDescFrom(_, _, _, _)
SortDescFrom(seq, i, acc, k) ==
    IF i > Len(seq) THEN acc
    ELSE SortDescFrom(seq, i + 1, InsertDesc(acc, seq[i], k), k)
SortDesc(seq, k) == SortDescFrom(seq, 1, <<>>, k)

(***************************************************************************)
(* BM25Calculator (src/indexes/bm25/bm25_calculator.py)                    *)
(*                                                                         *)
(* An instance is the record of its fields.  A method is an operator on    *)
(* the instance; one that assigns fields returns the instance as the call  *)
(* leaves it (self) beside its outcome.  Try(r, K) is the rest K of a      *)
(* method after a step r that may raise: the exception of r, or K of the   *)
(* value of r.                                                             *)
(***************************************************************************)
Let(v, K(_)) == K(v)
Try(r, K(_)) == IF r.exc # "none" THEN Raise(r.exc) ELSE K(r.val)

\* BM25Calculator.__init__(k1, b): no argument is checked
BM25Calculator(k1, b) ==
    [k1 |-> k1, b |-> b,
     documents |-> <<>>, doc_lengths |-> <<>>, avg_doc_length |-> RZero,
     vocabulary |-> {}, doc_term_freqs |-> <<>>, idf_scores |-> <<>>,
     N |-> 0]

\* the documents of a corpus, each through preprocess_text
Processed(documents) ==
    [i \in 1..Len(documents) |-> preprocess_text(documents[i])]
\* the distinct tokens of a list of token lists
Tokens(processed_docs) ==
    UNION {Range(processed_docs[i]) : i \in 1..Len(processed_docs)}

\* the number of documents that hold the term
DocFreq(term, processed_docs) ==
    Cardinality({i \in 1..Len(processed_docs) : term \in Range(processed_docs[i])})

\* the smoothed IDF with negative values clamped to 0
SmoothedIdfClamped(N, df) ==
    IF 2 * (N - df) + 1 < 2 * df + 1 THEN RZero
    ELSE LogRatio(2 * (N - df) + 1, 2 * df + 1)

\* the smoothed IDF log((N - df + 0.5) / (df + 0.5))
SmoothedIdf(N, df) == LogRatio(2 * (N - df) + 1, 2 * df + 1)

\* _calculate_idf_scores: every term of self.vocabulary gets the smoothed IDF
\* of its document frequency in processed_docs, written over any earlier entry
calculate_idf_scores(self, processed_docs) ==
    [term \in (DOMAIN self.idf_scores) \cup self.vocabulary |->
        IF term \in self.vocabulary
        THEN SmoothedIdf(self.N, DocFreq(term, processed_docs))
        ELSE self.idf_scores[term]]

\* lines 74-85 of fit as they would be if N were added to (self.N +=
\* len(documents)) instead of assigned
fit_head_adds_N(self, documents, processed_docs) ==
    [self EXCEPT
       !.documents = documents,
       !.N = self.N + Len(documents),
       !.doc_lengths = [i \in 1..Len(documents) |-> Len(processed_docs[i])],
       !.vocabulary = self.vocabulary \cup Tokens(processed_docs)]

\* lines 74-85 of fit: what is assigned before the average is taken
fit_head(self, documents, processed_docs) ==
    [self EXCEPT
       !.documents = documents,
       !.N = Len(documents),
       !.doc_lengths = [i \in 1..Len(documents) |-> Len(processed_docs[i])],
       !.vocabulary = self.vocabulary \cup Tokens(processed_docs)]

\* lines 88-97 of fit, on a corpus that is not empty
fit_tail(s1, processed_docs) ==
    Let([s1 EXCEPT
           !.avg_doc_length = Rat(SumSeq(s1.doc_lengths), Len(s1.doc_lengths)),
           !.doc_term_freqs =
               [i \in 1..Len(processed_docs) |-> Counter(processed_docs[i])]],
        LAMBDA s2 : [s2 EXCEPT !.idf_scores =
                                   calculate_idf_scores(s2, processed_docs)])

\* fit as it would be if the average of no lengths were taken to be 0.0
\* instead of dividing by len(self.doc_lengths) = 0
fit_no_raise(self, documents) ==
    Let(Processed(documents), LAMBDA processed_docs :
    Let(fit_head(self, documents, processed_docs), LAMBDA s1 :
        IF Len(s1.doc_lengths) = 0
        THEN [self |-> [s1 EXCEPT !.doc_term_freqs = <<>>,
                                  !.idf_scores = calculate_idf_scores(s1, <<>>)],
              exc |-> "none"]
        ELSE [self |-> fit_tail(s1, processed_docs), exc |-> "none"]))

\* BM25Calculator.fit: documents, N, doc_lengths and vocabulary are assigned
\* before the average is taken, and sum(...) / len(...) raises on an empty
\* corpus; vocabulary and idf_scores are added to, never cleared
fit(self, documents) ==
    Let(Processed(documents), LAMBDA processed_docs :
    Let(fit_head(self, documents, processed_docs), LAMBDA s1 :
        IF Len(s1.doc_lengths) = 0
        THEN [self |-> s1, exc |-> "ZeroDivisionError"]
        ELSE [self |-> fit_tail(s1, processed_docs), exc |-> "none"]))

\* length_norm = 1 - b + b * (doc_length / avg_doc_length), avg_doc_length # 0
LengthNorm(self, doc_length) ==
    RAdd(RSub(ROne, self.b),
         RMul(self.b, RDiv(RInt(doc_length), self.avg_doc_length)))

\* idf * (tf * (k1 + 1)) / den, den = tf + k1 * length_norm
Saturated(self, idf, tf, length_norm, den) ==
    IF RIsZero(den) THEN Raise("ZeroDivisionError")
    ELSE Return([idf |-> idf, length_norm |-> length_norm,
                 term_score |->
                     RDiv(RMul(idf, RMul(RInt(tf), RAdd(self.k1, ROne))), den)])

\* the three statements every scoring method repeats for a term of the
\* vocabulary: idf lookup, length normalisation, saturated term score.
\* dict[key] raises KeyError, a division by 0 or 0.0 ZeroDivisionError.
term_score(self, term, tf, doc_length) ==
    IF term \notin DOMAIN self.idf_scores THEN Raise("KeyError")
    ELSE IF RIsZero(self.avg_doc_length) THEN Raise("ZeroDivisionError")
    ELSE Let(LengthNorm(self, doc_length), LAMBDA length_norm :
             Saturated(self, self.idf_scores[term], tf, length_norm,
                       RAdd(RInt(tf), RMul(self.k1, length_norm))))

\* the loop as it would be over set(query_terms): a repeated query token is
\* scored once
RECURSIVE score_loop_distinct(_, _, _, _, _, _)
score_loop_distinct(self, query_terms, i, doc_term_freq, doc_length, score) ==
    IF i > Len(query_terms) THEN Return(score)
    ELSE IF query_terms[i] \notin self.vocabulary
            \/ \E j \in 1..(i - 1) : query_terms[j] = query_terms[i]
    THEN score_loop_distinct(self, query_terms, i + 1, doc_term_freq,
                             doc_length, score)
    ELSE Try(term_score(self, query_terms[i],
                        Get(doc_term_freq, query_terms[i]), doc_length),
             LAMBDA t : score_loop_distinct(self, query_terms, i + 1,
                                            doc_term_freq, doc_length,
                                            RAdd(score, t.term_score)))

\* the loop of calculate_bm25_score from query term i on, score so far given
RECURSIVE score_loop(_, _, _, _, _, _)
score_loop(self, query_terms, i, doc_term_freq, doc_length, score) ==
    IF i > Len(query_terms) THEN Return(score)
    ELSE IF query_terms[i] \notin self.vocabulary
    THEN score_loop(self, query_terms, i + 1, doc_term_freq, doc_length, score)
    ELSE Try(term_score(self, query_terms[i],
                        Get(doc_term_freq, query_terms[i]), doc_length),
             LAMBDA t : score_loop(self, query_terms, i + 1, doc_term_freq,
                                   doc_length, RAdd(score, t.term_score)))

\* BM25Calculator.calculate_bm25_score
calculate_bm25_score(self, query, doc_idx) ==
    IF PyIndex(self.doc_term_freqs, doc_idx) = 0
       \/ PyIndex(self.doc_lengths, doc_idx) = 0
    THEN Raise("IndexError")
    ELSE score_loop(self, preprocess_text(query), 1,
                    self.doc_term_freqs[PyIndex(self.doc_term_freqs, doc_idx)],
                    self.doc_lengths[PyIndex(self.doc_lengths, doc_idx)], RZero)

\* the loop of rank_documents from document i (0-based) on
RECURSIVE rank_loop(_, _, _, _)
rank_loop(self, query, i, scores) ==
    IF i >= Len(self.documents) THEN Return(scores)
    ELSE Try(calculate_bm25_score(self, query, i),
             LAMBDA score :
                rank_loop(self, query, i + 1,
                          Append(scores, <<i, self.documents[i + 1], score>>)))

\* BM25Calculator.rank_documents
rank_documents(self, query, top_k) ==
    Try(rank_loop(self, query, 0, <<>>),
        LAMBDA scores : Return(Slice(SortDesc(scores, 3), top_k)))

\* the orders in which Python may iterate over set(tokens): a set of strings
\* has no specified iteration order
SetOrders(tokens) ==
    {o \in [1..Cardinality(Range(tokens)) -> Range(tokens)] :
        Range(o) = Range(tokens)}

\* the entry as it would be if the term_score were not weighted by the
\* number of occurrences of the term in the query
TermEntryUnweighted(term, query_count, tf, t) ==
    [term |-> term,
     query_count |-> query_count,
     doc_tf |-> tf,
     idf |-> t.idf,
     length_norm |-> t.length_norm,
     term_score |-> t.term_score,
     weighted_score |-> t.term_score]

\* one entry of the 'terms' list of get_term_analysis
TermEntry(term, query_count, tf, t) ==
    [term |-> term,
     query_count |-> query_count,
     doc_tf |-> tf,
     idf |-> t.idf,
     length_norm |-> t.length_norm,
     term_score |-> t.term_score,
     weighted_score |-> RMul(t.term_score, RInt(query_count))]

\* the loop of get_term_analysis over set(query_terms), iterated in `order`
RECURSIVE analysis_loop(_, _, _, _, _, _, _, _)
analysis_loop(self, query_terms, order, i, doc_term_freq, doc_length, terms, total) ==
    IF i > Len(order) THEN Return([terms |-> terms, total_score |-> total])
    ELSE IF order[i] \notin self.vocabulary
    THEN analysis_loop(self, query_terms, order, i + 1, doc_term_freq,
                       doc_length, terms, total)
    ELSE Try(term_score(self, order[i], Get(doc_term_freq, order[i]), doc_length),
             LAMBDA t :
             Let(TermEntry(order[i], Count(query_terms, order[i]),
                           Get(doc_term_freq, order[i]), t),
                 LAMBDA entry :
                    analysis_loop(self, query_terms, order, i + 1, doc_term_freq,
                                  doc_length, Append(terms, entry),
                                  RAdd(total, entry.weighted_score))))

\* BM25Calculator.get_term_analysis; `order` is the iteration order of
\* set(query_terms).  The index is used as Python uses it: a negative one
\* counts from the end of the list.
get_term_analysis(self, query, doc_idx, order) ==
    IF PyIndex(self.doc_term_freqs, doc_idx) = 0
       \/ PyIndex(self.doc_lengths, doc_idx) = 0
    THEN Raise("IndexError")
    ELSE IF RIsZero(self.avg_doc_length) THEN Raise("ZeroDivisionError")
    ELSE Let(self.doc_lengths[PyIndex(self.doc_lengths, doc_idx)],
             LAMBDA doc_length :
             Try(analysis_loop(self, preprocess_text(query), order, 1,
                     self.doc_term_freqs[PyIndex(self.doc_term_freqs, doc_idx)],
                     doc_length, <<>>, RZero),
                 LAMBDA a :
                    Return([document_index |-> doc_idx,
                            document_length |-> doc_length,
                            avg_doc_length |-> self.avg_doc_length,
                            length_ratio |->
                                RDiv(RInt(doc_length), self.avg_doc_length),
                            terms |-> a.terms,
                            total_score |-> a.total_score])))

\* the inner loop of get_top_keywords for one term, from document doc_idx
\* (0-based) on: the contributions of the documents that hold the term
RECURSIVE contribution_loop(_, _, _, _, _)
contribution_loop(self, term, doc_idx, total_contribution, doc_count) ==
    IF doc_idx >= Len(self.documents)
    THEN Return([total |-> total_contribution, doc_count |-> doc_count])
    ELSE IF PyIndex(self.doc_term_freqs, doc_idx) = 0 THEN Raise("IndexError")
    ELSE IF Get(self.doc_term_freqs[doc_idx + 1], term) > 0
    THEN IF term \notin DOMAIN self.idf_scores THEN Raise("KeyError")
         ELSE IF PyIndex(self.doc_lengths, doc_idx) = 0 THEN Raise("IndexError")
         ELSE Try(term_score(self, term, Get(self.doc_term_freqs[doc_idx + 1], term),
                             self.doc_lengths[doc_idx + 1]),
                  LAMBDA t :
                     contribution_loop(self, term, doc_idx + 1,
                                       RAdd(total_contribution, t.term_score),
                                       doc_count + 1))
    ELSE contribution_loop(self, term, doc_idx + 1, total_contribution, doc_count)

\* the outer loop of get_top_keywords; term_scores is the dict being built,
\* as the list of its items in insertion order
RECURSIVE keyword_loop(_, _, _, _)
keyword_loop(self, order, i, term_scores) ==
    IF i > Len(order) THEN Return(term_scores)
    ELSE IF order[i] \notin self.vocabulary
    THEN keyword_loop(self, order, i + 1, term_scores)
    ELSE Try(contribution_loop(self, order[i], 0, RZero, 0),
             LAMBDA c :
                IF c.doc_count > 0
                THEN keyword_loop(self, order, i + 1,
                         Append(term_scores,
                                <<order[i], RDiv(c.total, RInt(c.doc_count))>>))
                ELSE keyword_loop(self, order, i + 1, term_scores))

\* BM25Calculator.get_top_keywords; `order` is the iteration order of
\* set(preprocess_text(query)), top_k an int
get_top_keywords(self, query, top_k, order) ==
    Try(keyword_loop(self, order, 1, <<>>),
        LAMBDA term_scores : Return(Slice(SortDesc(term_scores, 2), Some(top_k))))

(***************************************************************************)
(* BM25DocumentRanker (src/indexes/bm25/document_ranker.py)                *)
(* The instance holds its calculator in the field bm25_calc.               *)
(***************************************************************************)
\* BM25DocumentRanker.__init__(k1, b)
BM25DocumentRanker(k1, b) ==
    [bm25_calc |-> BM25Calculator(k1, b), documents |-> <<>>, fitted |-> FALSE]

\* BM25DocumentRanker.fit: documents is assigned first; fitted is set only
\* when the calculator's fit returns
ranker_fit(self, documents) ==
    Let(fit(self.bm25_calc, documents), LAMBDA r :
        [self |-> [bm25_calc |-> r.self,
                   documents |-> documents,
                   fitted |-> IF r.exc = "none" THEN TRUE ELSE self.fitted],
         exc |-> r.exc])

\* search as it would be without the check of self.fitted
search_unchecked(self, query, top_k) ==
    rank_documents(self.bm25_calc, query, Some(top_k))

\* BM25DocumentRanker.search; top_k is an int
search(self, query, top_k) ==
    IF ~self.fitted THEN Raise(NotFitted)
    ELSE rank_documents(self.bm25_calc, query, Some(top_k))

\* BM25DocumentRanker.explain_ranking
explain_ranking(self, query, doc_idx, order) ==
    IF ~self.fitted THEN Raise(NotFitted)
    ELSE get_term_analysis(self.bm25_calc, query, doc_idx, order)

\* min(list) and max(list) of a list that is not empty
MinSeq(seq) == CHOOSE m \in Range(seq) : \A x \in Range(seq) : m <= x
MaxSeq(seq) == CHOOSE m \in Range(seq) : \A x \in Range(seq) : m >= x

\* BM25DocumentRanker.get_corpus_statistics: min() and max() of an empty
\* list raise ValueError
get_corpus_statistics(self) ==
    IF ~self.fitted THEN Raise(NotFitted)
    ELSE IF self.bm25_calc.doc_lengths = <<>> THEN Raise(EmptyMin)
    ELSE Return([num_documents |-> Len(self.documents),
                 vocabulary_size |-> Cardinality(self.bm25_calc.vocabulary),
                 avg_document_length |-> self.bm25_calc.avg_doc_length,
                 total_terms |-> SumSeq(self.bm25_calc.doc_lengths),
                 min_doc_length |-> MinSeq(self.bm25_calc.doc_lengths),
                 max_doc_length |-> MaxSeq(self.bm25_calc.doc_lengths),
                 parameters |-> [k1 |-> self.bm25_calc.k1,
                                 b |-> self.bm25_calc.b]])

(***************************************************************************)
(* TFIDFCalculator (src/indexes/tf-idf/tfidf_calculator.py)                *)
(***************************************************************************)
\* TFIDFCalculator.__init__
TFIDFCalculator == [documents |-> <<>>, vocabulary |-> {}, idf_scores |-> <<>>]

\* TFIDFCalculator.calculate_tf
calculate_tf(term, document) ==
    IF Len(document) = 0 THEN RZero
    ELSE Rat(Count(document, term), Len(document))

\* TFIDFCalculator.calculate_idf
calculate_idf(term, documents) ==
    IF DocFreq(term, documents) = 0 THEN RZero
    ELSE LogRatio(Len(documents), DocFreq(term, documents))

\* lines 95-100 of TFIDFCalculator.fit, self.documents being assigned
tfidf_fit_tail(self, docs, vocabulary) ==
    [documents |-> docs,
     vocabulary |-> vocabulary,
     idf_scores |-> [term \in (DOMAIN self.idf_scores) \cup vocabulary |->
                        IF term \in vocabulary THEN calculate_idf(term, docs)
                        ELSE self.idf_scores[term]]]

\* TFIDFCalculator.fit: never raises, an empty corpus included; vocabulary
\* and idf_scores are added to, never cleared
tfidf_fit(self, documents) ==
    [self |-> tfidf_fit_tail(self, Processed(documents),
                             self.vocabulary \cup Tokens(Processed(documents))),
     exc |-> "none"]

\* lines 115-124 of calculate_tfidf_vector: the dict term -> tf * idf over the
\* tokens that are in the vocabulary
tfidf_vector_of(self, tokens) ==
    IF \E term \in Range(tokens) \cap self.vocabulary :
          term \notin DOMAIN self.idf_scores
    THEN Raise("KeyError")
    ELSE Return([term \in Range(tokens) \cap self.vocabulary |->
                    RMul(calculate_tf(term, tokens), self.idf_scores[term])])

\* calculate_tfidf_vector as it would be without the check of
\* self.documents
calculate_tfidf_vector_unchecked(self, text) ==
    tfidf_vector_of(self, preprocess_text(text))

\* TFIDFCalculator.calculate_tfidf_vector
calculate_tfidf_vector(self, text) ==
    IF self.documents = <<>> THEN Raise(NotFitted)
    ELSE tfidf_vector_of(self, preprocess_text(text))

\* dict.items() of the vector built from `tokens`: a dict keeps its keys in
\* the order of their first insertion
RECURSIVE items_from(_, _, _, _)
items_from(vector, tokens, i, items) ==
    IF i > Len(tokens) THEN items
    ELSE IF tokens[i] \in DOMAIN vector
            /\ \A j \in 1..(i - 1) : tokens[j] # tokens[i]
         THEN items_from(vector, tokens, i + 1,
                         Append(items, <<tokens[i], vector[tokens[i]]>>))
         ELSE items_from(vector, tokens, i + 1, items)

\* TFIDFCalculator.get_top_keywords; top_k is an int
tfidf_get_top_keywords(self, text, top_k) ==
    Try(calculate_tfidf_vector(self, text),
        LAMBDA tfidf_vector :
           Return(Slice(SortDesc(items_from(tfidf_vector, preprocess_text(text),
                                            1, <<>>), 2),
                        Some(top_k))))

(***************************************************************************)
(* DocumentRanker (src/indexes/tf-idf/document_ranker.py)                  *)
(***************************************************************************)
\* DocumentRanker.__init__
DocumentRanker ==
    [tfidf_calc |-> TFIDFCalculator, documents |-> <<>>, document_vectors |-> <<>>]

\* the loop of DocumentRanker.fit that caches one vector per document; a
\* vector that cannot be computed ends it with the vectors cached so far
RECURSIVE vectors_loop(_, _, _, _)
vectors_loop(calc, documents, i, vectors) ==
    IF i > Len(documents) THEN [vectors |-> vectors, exc |-> "none"]
    ELSE Let(calculate_tfidf_vector(calc, documents[i]), LAMBDA r :
             IF r.exc # "none" THEN [vectors |-> vectors, exc |-> r.exc]
             ELSE vectors_loop(calc, documents, i + 1, Append(vectors, r.val)))

\* DocumentRanker.fit
document_ranker_fit(self, documents) ==
    Let(tfidf_fit(self.tfidf_calc, documents).self, LAMBDA calc :
    Let(vectors_loop(calc, documents, 1, <<>>), LAMBDA v :
        [self |-> [tfidf_calc |-> calc,
                   documents |-> documents,
                   document_vectors |-> v.vectors],
         exc |-> v.exc]))

\* sum of f[t] * g[t] over the terms t of S, an absent term counting 0
RECURSIVE Dot(_, _, _)
Dot(f, g, S) ==
    IF S = {} THEN RZero
    ELSE Let(CHOOSE x \in S : TRUE, LAMBDA t :
             RAdd(RMul(IF t \in DOMAIN f THEN f[t] ELSE RZero,
                       IF t \in DOMAIN g THEN g[t] ELSE RZero),
                  Dot(f, g, S \ {t})))

\* dot / (norm_v1 * norm_v2), standing for the similarity s as
\* s * |s| = dot * |dot| / (norm_v1^2 * norm_v2^2)
Cosine(dot_product, norm_v1_sq, norm_v2_sq) ==
    IF RIsZero(norm_v1_sq) \/ RIsZero(norm_v2_sq) THEN RZero
    ELSE RDiv(RMul(dot_product, <<Abs(dot_product[1]), dot_product[2]>>),
              RMul(norm_v1_sq, norm_v2_sq))

\* DocumentRanker.cosine_similarity
cosine_similarity(vec1, vec2) ==
    IF (DOMAIN vec1) \cup (DOMAIN vec2) = {} THEN RZero
    ELSE Cosine(Dot(vec1, vec2, (DOMAIN vec1) \cup (DOMAIN vec2)),
                Dot(vec1, vec1, DOMAIN vec1),
                Dot(vec2, vec2, DOMAIN vec2))

\* the loop of DocumentRanker.rank_documents over enumerate(document_vectors)
RECURSIVE similarity_loop(_, _, _, _)
similarity_loop(self, query_vector, i, scores) ==
    IF i >= Len(self.document_vectors) THEN Return(scores)
    ELSE IF PyIndex(self.documents, i) = 0 THEN Raise("IndexError")
    ELSE similarity_loop(self, query_vector, i + 1,
             Append(scores,
                    <<i, self.documents[i + 1],
                      cosine_similarity(query_vector,
                                        self.document_vectors[i + 1])>>))

\* DocumentRanker.rank_documents
document_ranker_rank_documents(self, query, top_k) ==
    Try(calculate_tfidf_vector(self.tfidf_calc, query), LAMBDA query_vector :
    Try(similarity_loop(self, query_vector, 0, <<>>), LAMBDA scores :
        Return(Slice(SortDesc(scores, 3), top_k))))

(***************************************************************************)
(* The caller                                                              *)
(***************************************************************************)
\* the documents a corpus is made of: " " (no token), "a", "A b", "b  b"
DocPool == {<<" ">>, <<"a">>, <<"A", " ", "b">>, <<"b", " ", " ", "b">>}
\* the queries: "", "a", "B a", "b a b", "c"
QueryPool == {<<>>, <<"a">>, <<"B", " ", "a">>, <<"b", " ", "a", " ", "b">>, <<"c">>}
\* the corpora handed to fit, the empty one included
Corpora == UNION {[1..n -> DocPool] : n \in 0..MaxDocs}
\* top_k of rank_documents (None or an int), and of the methods that take an int
TopKs == {None} \cup {Some(k) : k \in 0..(MaxDocs + 1)}
TopKInts == 0..(MaxDocs + 1)
\* document indices: every valid one, every negative one Python accepts, and
\* one beyond either end
DocIndices == (-(MaxDocs + 1))..MaxDocs

\* (k1, b) handed to the BM25 constructors: the defaults 1.2 and 0.75, full
\* length normalisation b = 1, and values outside k1 > 0, 0 <= b <= 1
DefaultParams == <<Rat(6, 5), Rat(3, 4)>>
ParamPool == {DefaultParams,
              <<Rat(6, 5), ROne>>,
              <<RZero, Rat(3, 4)>>,
              <<RInt(-1), Rat(3, 4)>>,
              <<Rat(6, 5), Rat(3, 2)>>,
              <<Rat(6, 5), Rat(-1, 2)>>}
ValidParams(k1, b) == RLess(RZero, k1) /\ RLeq(RZero, b) /\ RLeq(b, ROne)

Kinds == {"BM25Calculator", "BM25DocumentRanker", "TFIDFCalculator", "DocumentRanker"}

VARIABLES
    kind,        \* the class of the object the caller drives
    calc,        \* a BM25Calculator
    ranker,      \* a BM25DocumentRanker
    tfidf_calc,  \* a TFIDFCalculator
    doc_ranker,  \* a DocumentRanker
    pc,          \* the caller: "idle" between calls, "returned" holding an outcome
    last,        \* the last call: method, arguments, outcome
    pre,         \* the driven object as it was when the last call was made
    hist,        \* what the caller has seen of fit so far
    fit_thread,  \* a thread inside BM25Calculator.fit: its line and locals
    query_thread \* a thread inside BM25Calculator.rank_documents

vars == <<kind, calc, ranker, tfidf_calc, doc_ranker, pc, last, pre, hist,
          fit_thread, query_thread>>

\* the object the caller drives
Obj == CASE kind = "BM25Calculator" -> calc
         [] kind = "BM25DocumentRanker" -> ranker
         [] kind = "TFIDFCalculator" -> tfidf_calc
         [] kind = "DocumentRanker" -> doc_ranker

NoCall == [op |-> "none", args |-> <<>>, exc |-> "none", val |-> <<>>]

\* hist.lastFit: how the most recent fit call ended ("none" before the first);
\* hist.fitDocs: the documents of the most recent fit call that returned;
\* hist.returned: some fit call returned; hist.goodFit: some fit call on a
\* non-empty corpus returned; hist.error: some call raised the not-fitted
\* error, or some fit call raised
NoHist == [lastFit |-> "none", fitDocs |-> <<>>, returned |-> FALSE,
           goodFit |-> FALSE, error |-> FALSE]

\* a thread that is in no method
FitIdle == [pc |-> "idle", documents |-> <<>>, processed_docs |-> <<>>,
            i |-> 0, todo |-> {}]
QueryIdle == [pc |-> "idle", query |-> <<>>, n |-> 0, i |-> 0, score |-> RZero,
              scores |-> <<>>, exc |-> "none", val |-> <<>>]

Init ==
    /\ fit_thread = FitIdle
    /\ query_thread = QueryIdle
    /\ kind \in Kinds
    /\ \E p \in ParamPool :
          /\ kind \notin {"BM25Calculator", "BM25DocumentRanker"} => p = DefaultParams
          /\ calc = BM25Calculator(p[1], p[2])
          /\ ranker = BM25DocumentRanker(p[1], p[2])
    /\ tfidf_calc = TFIDFCalculator
    /\ doc_ranker = DocumentRanker
    /\ pc = "idle"
    /\ last = NoCall
    /\ pre = Obj
    /\ hist = NoHist

\* the instance as a query method leaves it: none of them assigns a field
\* of self or changes a list, set or dict that self holds.
\* query_consumes is a query that empties self.documents as it goes.
query_consumes(self) == [self EXCEPT !.documents = <<>>]
after_query(self) == self

\* the caller's bookkeeping of a fit call that ended with exception exc
AfterFit(documents, exc) ==
    /\ UNCHANGED <<fit_thread, query_thread>>
    /\ pc' = "returned"
    /\ pre' = Obj
    /\ last' = [op |-> "fit", args |-> <<documents>>, exc |-> exc, val |-> <<>>]
    /\ hist' = [lastFit |-> IF exc = "none" THEN "returned" ELSE "raised",
                fitDocs |-> IF exc = "none" THEN documents ELSE hist.fitDocs,
                returned |-> hist.returned \/ exc = "none",
                goodFit |-> hist.goodFit \/ (exc = "none" /\ documents # <<>>),
                error |-> hist.error \/ exc # "none"]

\* the caller's bookkeeping of a call that assigns no field
AfterQuery(op, args, r) ==
    /\ UNCHANGED <<fit_thread, query_thread>>
    /\ pc' = "returned"
    /\ pre' = Obj
    /\ last' = [op |-> op, args |-> args, exc |-> r.exc, val |-> r.val]
    /\ hist' = [hist EXCEPT !.error = hist.error \/ r.exc = NotFitted]

\* ---- BM25Calculator
CalcFit ==
    /\ kind = "BM25Calculator" /\ pc = "idle"
    /\ \E documents \in Corpora :
          \E r \in {fit(calc, documents)} :
              /\ calc' = r.self
              /\ AfterFit(documents, r.exc)
    /\ UNCHANGED <<kind, ranker, tfidf_calc, doc_ranker>>

CalcScore ==
    /\ kind = "BM25Calculator" /\ pc = "idle"
    /\ \E query \in QueryPool, doc_idx \in DocIndices :
          AfterQuery("calculate_bm25_score", <<query, doc_idx>>,
                     calculate_bm25_score(calc, query, doc_idx))
    /\ calc' = after_query(calc)
    /\ UNCHANGED <<kind, ranker, tfidf_calc, doc_ranker>>

CalcRank ==
    /\ kind = "BM25Calculator" /\ pc = "idle"
    /\ \E query \in QueryPool, top_k \in TopKs :
          AfterQuery("rank_documents", <<query, top_k>>,
                     rank_documents(calc, query, top_k))
    /\ calc' = after_query(calc)
    /\ UNCHANGED <<kind, ranker, tfidf_calc, doc_ranker>>

CalcAnalysis ==
    /\ kind = "BM25Calculator" /\ pc = "idle"
    /\ \E query \in QueryPool, doc_idx \in DocIndices :
          \E order \in SetOrders(preprocess_text(query)) :
             AfterQuery("get_term_analysis", <<query, doc_idx, order>>,
                        get_term_analysis(calc, query, doc_idx, order))
    /\ calc' = after_query(calc)
    /\ UNCHANGED <<kind, ranker, tfidf_calc, doc_ranker>>

CalcKeywords ==
    /\ kind = "BM25Calculator" /\ pc = "idle"
    /\ \E query \in QueryPool, top_k \in TopKInts :
          \E order \in SetOrders(preprocess_text(query)) :
             AfterQuery("get_top_keywords", <<query, top_k, order>>,
                        get_top_keywords(calc, query, top_k, order))
    /\ calc' = after_query(calc)
    /\ UNCHANGED <<kind, ranker, tfidf_calc, doc_ranker>>

\* ---- BM25DocumentRanker
RankerFit ==
    /\ kind = "BM25DocumentRanker" /\ pc = "idle"
    /\ \E documents \in Corpora :
          \E r \in {ranker_fit(ranker, documents)} :
              /\ ranker' = r.self
              /\ AfterFit(documents, r.exc)
    /\ UNCHANGED <<kind, calc, tfidf_calc, doc_ranker>>

RankerSearch ==
    /\ kind = "BM25DocumentRanker" /\ pc = "idle"
    /\ \E query \in QueryPool, top_k \in TopKInts :
          AfterQuery("search", <<query, top_k>>, search(ranker, query, top_k))
    /\ ranker' = after_query(ranker)
    /\ UNCHANGED <<kind, calc, tfidf_calc, doc_ranker>>

RankerExplain ==
    /\ kind = "BM25DocumentRanker" /\ pc = "idle"
    /\ \E query \in QueryPool, doc_idx \in DocIndices :
          \E order \in SetOrders(preprocess_text(query)) :
             AfterQuery("explain_ranking", <<query, doc_idx, order>>,
                        explain_ranking(ranker, query, doc_idx, order))
    /\ ranker' = after_query(ranker)
    /\ UNCHANGED <<kind, calc, tfidf_calc, doc_ranker>>

RankerStatistics ==
    /\ kind = "BM25DocumentRanker" /\ pc = "idle"
    /\ AfterQuery("get_corpus_statistics", <<>>, get_corpus_statistics(ranker))
    /\ ranker' = after_query(ranker)
    /\ UNCHANGED <<kind, calc, tfidf_calc, doc_ranker>>

\* ---- TFIDFCalculator
TfidfFit ==
    /\ kind = "TFIDFCalculator" /\ pc = "idle"
    /\ \E documents \in Corpora :
          \E r \in {tfidf_fit(tfidf_calc, documents)} :
              /\ tfidf_calc' = r.self
              /\ AfterFit(documents, r.exc)
    /\ UNCHANGED <<kind, calc, ranker, doc_ranker>>

TfidfVector ==
    /\ kind = "TFIDFCalculator" /\ pc = "idle"
    /\ \E text \in QueryPool \cup DocPool :
          AfterQuery("calculate_tfidf_vector", <<text>>,
                     calculate_tfidf_vector(tfidf_calc, text))
    /\ tfidf_calc' = after_query(tfidf_calc)
    /\ UNCHANGED <<kind, calc, ranker, doc_ranker>>

TfidfKeywords ==
    /\ kind = "TFIDFCalculator" /\ pc = "idle"
    /\ \E text \in QueryPool \cup DocPool, top_k \in TopKInts :
          AfterQuery("get_top_keywords", <<text, top_k>>,
                     tfidf_get_top_keywords(tfidf_calc, text, top_k))
    /\ tfidf_calc' = after_query(tfidf_calc)
    /\ UNCHANGED <<kind, calc, ranker, doc_ranker>>

\* ---- DocumentRanker
DocRankerFit ==
    /\ kind = "DocumentRanker" /\ pc = "idle"
    /\ \E documents \in Corpora :
          \E r \in {document_ranker_fit(doc_ranker, documents)} :
              /\ doc_ranker' = r.self
              /\ AfterFit(documents, r.exc)
    /\ UNCHANGED <<kind, calc, ranker, tfidf_calc>>

DocRankerRank ==
    /\ kind = "DocumentRanker" /\ pc = "idle"
    /\ \E query \in QueryPool, top_k \in TopKs :
          AfterQuery("rank_documents", <<query, top_k>>,
                     document_ranker_rank_documents(doc_ranker, query, top_k))
    /\ doc_ranker' = after_query(doc_ranker)
    /\ UNCHANGED <<kind, calc, ranker, tfidf_calc>>

\* the caller has looked at the outcome and goes on to its next call
Resume ==
    /\ pc = "returned"
    /\ pc' = "idle"
    /\ last' = NoCall
    /\ pre' = Obj
    /\ UNCHANGED <<kind, calc, ranker, tfidf_calc, doc_ranker, hist>>
    /\ UNCHANGED <<fit_thread, query_thread>>

Next ==
    \/ CalcFit \/ CalcScore \/ CalcRank \/ CalcAnalysis \/ CalcKeywords
    \/ RankerFit \/ RankerSearch \/ RankerExplain \/ RankerStatistics
    \/ TfidfFit \/ TfidfVector \/ TfidfKeywords
    \/ DocRankerFit \/ DocRankerRank
    \/ Resume

Spec == Init /\ [][Next]_vars

(***************************************************************************)
(* A BM25Calculator with the default parameters on which only fit is       *)
(* called, with corpora of up to MaxIdfDocs documents.                     *)
(***************************************************************************)
IdfCorpora == UNION {[1..n -> DocPool] : n \in 0..MaxIdfDocs}

InitIdf ==
    /\ Init
    /\ kind = "BM25Calculator"
    /\ calc = BM25Calculator(DefaultParams[1], DefaultParams[2])

IdfFit ==
    /\ kind = "BM25Calculator" /\ pc = "idle"
    /\ \E documents \in IdfCorpora :
          \E r \in {fit(calc, documents)} :
              /\ calc' = r.self
              /\ AfterFit(documents, r.exc)
    /\ UNCHANGED <<kind, ranker, tfidf_calc, doc_ranker>>

NextIdf == IdfFit \/ Resume

SpecIdf == InitIdf /\ [][NextIdf]_vars

(***************************************************************************)
(* Two threads on one fitted BM25Calculator (default parameters): one      *)
(* calls fit, one calls rank_documents(query, None).  Neither method takes *)
(* a lock, so the threads interleave statement by statement; fit_thread.pc *)
(* and query_thread.pc are the line of bm25_calculator.py the thread is    *)
(* about to execute.  pre is the engine as it was before fit was called.   *)
(***************************************************************************)
InitConc ==
    /\ kind = "BM25Calculator"
    /\ \E documents \in Corpora \ {<<>>} :
          calc = fit(BM25Calculator(DefaultParams[1], DefaultParams[2]),
                     documents).self
    /\ ranker = BM25DocumentRanker(DefaultParams[1], DefaultParams[2])
    /\ tfidf_calc = TFIDFCalculator
    /\ doc_ranker = DocumentRanker
    /\ pc = "idle"
    /\ last = NoCall
    /\ pre = calc
    /\ hist = NoHist
    /\ fit_thread = FitIdle
    /\ query_thread = QueryIdle

\* a step of the fit thread leaves these alone
FitFrame == UNCHANGED <<kind, ranker, tfidf_calc, doc_ranker, pc, last, pre,
                        hist, query_thread>>
\* a step of the query thread leaves these alone
QueryFrame == UNCHANGED <<kind, calc, ranker, tfidf_calc, doc_ranker, pc, last,
                          pre, hist, fit_thread>>

\* fit(documents) is called
FitCall ==
    /\ fit_thread.pc = "idle"
    /\ \E documents \in Corpora \ {<<>>} :
          fit_thread' = [FitIdle EXCEPT !.pc = "l74", !.documents = documents]
    /\ UNCHANGED calc
    /\ FitFrame

\* line 74: self.documents = documents
Fit74 ==
    /\ fit_thread.pc = "l74"
    /\ calc' = [calc EXCEPT !.documents = fit_thread.documents]
    /\ fit_thread' = [fit_thread EXCEPT !.pc = "l75"]
    /\ FitFrame

\* line 75: self.N = len(documents)
Fit75 ==
    /\ fit_thread.pc = "l75"
    /\ calc' = [calc EXCEPT !.N = Len(fit_thread.documents)]
    /\ fit_thread' = [fit_thread EXCEPT !.pc = "l79"]
    /\ FitFrame

\* lines 78-79: processed_docs = []; self.doc_lengths = []
Fit79 ==
    /\ fit_thread.pc = "l79"
    /\ calc' = [calc EXCEPT !.doc_lengths = <<>>]
    /\ fit_thread' = [fit_thread EXCEPT !.pc = "l81", !.processed_docs = <<>>,
                                        !.i = 1]
    /\ FitFrame

\* lines 81-84: the next document is tokenised, its length appended
Fit84 ==
    /\ fit_thread.pc = "l81" /\ fit_thread.i <= Len(fit_thread.documents)
    /\ \E tokens \in {preprocess_text(fit_thread.documents[fit_thread.i])} :
          /\ calc' = [calc EXCEPT !.doc_lengths = Append(@, Len(tokens))]
          /\ fit_thread' = [fit_thread EXCEPT
                               !.pc = "l85",
                               !.processed_docs = Append(@, tokens)]
    /\ FitFrame

\* line 85: self.vocabulary.update(tokens)
Fit85 ==
    /\ fit_thread.pc = "l85"
    /\ calc' = [calc EXCEPT
                  !.vocabulary =
                      @ \cup Range(fit_thread.processed_docs[fit_thread.i])]
    /\ fit_thread' = [fit_thread EXCEPT !.pc = "l81", !.i = @ + 1]
    /\ FitFrame

\* line 88: self.avg_doc_length = sum(...) / len(...), which raises when
\* there is no length
Fit88 ==
    /\ fit_thread.pc = "l81" /\ fit_thread.i > Len(fit_thread.documents)
    /\ IF Len(calc.doc_lengths) = 0
       THEN /\ fit_thread' = [fit_thread EXCEPT !.pc = "raised"]
            /\ UNCHANGED calc
       ELSE /\ calc' = [calc EXCEPT
                          !.avg_doc_length = Rat(SumSeq(calc.doc_lengths),
                                                 Len(calc.doc_lengths))]
            /\ fit_thread' = [fit_thread EXCEPT !.pc = "l91"]
    /\ FitFrame

\* line 91: self.doc_term_freqs = []
Fit91 ==
    /\ fit_thread.pc = "l91"
    /\ calc' = [calc EXCEPT !.doc_term_freqs = <<>>]
    /\ fit_thread' = [fit_thread EXCEPT !.pc = "l92", !.i = 1]
    /\ FitFrame

\* lines 92-94: the Counter of the next document is appended
Fit94 ==
    /\ fit_thread.pc = "l92" /\ fit_thread.i <= Len(fit_thread.processed_docs)
    /\ calc' = [calc EXCEPT
                  !.doc_term_freqs =
                      Append(@, Counter(fit_thread.processed_docs[fit_thread.i]))]
    /\ fit_thread' = [fit_thread EXCEPT !.i = @ + 1]
    /\ FitFrame

\* lines 97, 106: _calculate_idf_scores starts to iterate over
\* self.vocabulary
Fit97 ==
    /\ fit_thread.pc = "l92" /\ fit_thread.i > Len(fit_thread.processed_docs)
    /\ fit_thread' = [fit_thread EXCEPT !.pc = "l106", !.todo = calc.vocabulary]
    /\ UNCHANGED calc
    /\ FitFrame

\* lines 106-112: the idf of the next term of the vocabulary (a set: in any
\* order) is stored
Fit112 ==
    /\ fit_thread.pc = "l106" /\ fit_thread.todo # {}
    /\ \E term \in fit_thread.todo :
          /\ calc' = [calc EXCEPT
                        !.idf_scores =
                            [t \in (DOMAIN calc.idf_scores) \cup {term} |->
                                IF t = term
                                THEN SmoothedIdf(calc.N,
                                         DocFreq(term, fit_thread.processed_docs))
                                ELSE calc.idf_scores[t]]]
          /\ fit_thread' = [fit_thread EXCEPT !.todo = @ \ {term}]
    /\ FitFrame

\* fit returns
FitReturn ==
    /\ fit_thread.pc = "l106" /\ fit_thread.todo = {}
    /\ fit_thread' = [fit_thread EXCEPT !.pc = "returned"]
    /\ UNCHANGED calc
    /\ FitFrame

\* rank_documents(query, None) is called; lines 162-164: scores = [] and
\* range(len(self.documents)) is evaluated
RankCall ==
    /\ query_thread.pc = "idle"
    /\ \E query \in QueryPool :
          query_thread' = [QueryIdle EXCEPT !.pc = "l164", !.query = query,
                                            !.n = Len(calc.documents)]
    /\ QueryFrame

\* line 165: score = self.calculate_bm25_score(query, i)
Rank165 ==
    /\ query_thread.pc = "l164" /\ query_thread.i < query_thread.n
    /\ \E r \in {calculate_bm25_score(calc, query_thread.query, query_thread.i)} :
          query_thread' =
              IF r.exc # "none"
              THEN [query_thread EXCEPT !.pc = "done", !.exc = r.exc]
              ELSE [query_thread EXCEPT !.pc = "l166", !.score = r.val]
    /\ QueryFrame

\* line 166: scores.append((i, self.documents[i], score))
Rank166 ==
    /\ query_thread.pc = "l166"
    /\ query_thread' =
          IF PyIndex(calc.documents, query_thread.i) = 0
          THEN [query_thread EXCEPT !.pc = "done", !.exc = "IndexError"]
          ELSE [query_thread EXCEPT
                  !.pc = "l164",
                  !.scores = Append(@, <<query_thread.i,
                                         calc.documents[query_thread.i + 1],
                                         query_thread.score>>),
                  !.i = @ + 1]
    /\ QueryFrame

\* lines 169-174: the scores are sorted and returned
RankReturn ==
    /\ query_thread.pc = "l164" /\ query_thread.i >= query_thread.n
    /\ query_thread' = [query_thread EXCEPT
                           !.pc = "done",
                           !.val = Slice(SortDesc(query_thread.scores, 3), None)]
    /\ QueryFrame

NextConc ==
    \/ FitCall \/ Fit74 \/ Fit75 \/ Fit79 \/ Fit84 \/ Fit85 \/ Fit88
    \/ Fit91 \/ Fit94 \/ Fit97 \/ Fit112 \/ FitReturn
    \/ RankCall \/ Rank165 \/ Rank166 \/ RankReturn

SpecConc == InitConc /\ [][NextConc]_vars

(***************************************************************************)
(* Properties                                                              *)
(***************************************************************************)
BM25Kinds == {"BM25Calculator", "BM25DocumentRanker"}
TfidfKinds == {"TFIDFCalculator", "DocumentRanker"}

\* the BM25Calculator of the driven BM25 object
Engine == IF kind = "BM25DocumentRanker" THEN ranker.bm25_calc ELSE calc

\* the parameters of the driven engine are ones the BM25 constructors are
\* meant to take (the TF-IDF classes take none)
Valid == kind \in BM25Kinds => ValidParams(Engine.k1, Engine.b)

\* the last call was fit([])
EmptyFitCalled == pc = "returned" /\ last.op = "fit" /\ last.args[1] = <<>>

\* the distinct tokens of the documents of the most recent fit that returned
CorpusTokens == Tokens(Processed(hist.fitDocs))

\* C1: after any sequence of fit calls on one BM25Calculator or
\* TFIDFCalculator, the vocabulary and the key set of the IDF table are
\* exactly the distinct tokens of the documents of the most recent fit that
\* returned; no term of an earlier corpus survives a re-fit.
C1_FitReplacesVocabulary ==
    (kind \in {"BM25Calculator", "TFIDFCalculator"} /\ Valid /\ hist.returned) =>
        /\ Obj.vocabulary = CorpusTokens
        /\ DOMAIN Obj.idf_scores = CorpusTokens

\* C2: BM25Calculator.fit([]) and BM25DocumentRanker.fit([]) never return
\* normally, whatever the instance's earlier history: the call raises (the
\* ZeroDivisionError of the average length of no documents) to its caller.
C2_EmptyFitRaises ==
    (kind \in BM25Kinds /\ EmptyFitCalled) => last.exc = "ZeroDivisionError"

\* fit([]) has raised on a BM25DocumentRanker that an earlier fit had fitted
C2_Witness ==
    /\ kind = "BM25DocumentRanker" /\ EmptyFitCalled
    /\ hist.goodFit /\ pre.fitted
    /\ last.exc = "ZeroDivisionError"

\* C3: TFIDFCalculator.fit([]) and DocumentRanker.fit([]) fail at the fit
\* call itself; neither returns normally.
C3_TfidfEmptyFitRaises ==
    (kind \in TfidfKinds /\ EmptyFitCalled) => last.exc # "none"

\* C4: a fit that fails commits no partial state: when fit([]) raises on an
\* engine that was fitted before, every field of the engine is as it was when
\* the call was made.
C4_FailedFitCommitsNothing ==
    (/\ Valid
     /\ pc = "returned" /\ last.op = "fit" /\ last.exc # "none"
     /\ hist.goodFit)
        => Obj = pre

\* C5: through the ranker-level interface (BM25DocumentRanker.search,
\* explain_ranking, get_corpus_statistics; TFIDFCalculator
\* calculate_tfidf_vector, get_top_keywords; DocumentRanker.rank_documents)
\* every call made before any fit on a non-empty corpus has returned raises
\* the not-fitted error and returns no result.
C5_NotFittedBeforeFit ==
    (/\ kind \in {"BM25DocumentRanker", "TFIDFCalculator", "DocumentRanker"}
     /\ pc = "returned" /\ last.op # "fit"
     /\ ~hist.goodFit)
        => (last.exc = NotFitted /\ last.val = <<>>)

\* search has raised the not-fitted error on a BM25DocumentRanker whose only
\* fit so far was fit([]), which raised
C5_Witness ==
    /\ kind = "BM25DocumentRanker"
    /\ pc = "returned" /\ last.op = "search"
    /\ hist.lastFit = "raised" /\ ~hist.goodFit
    /\ last.exc = NotFitted

\* C6: no scoring operation of a BM25Calculator (rank_documents,
\* calculate_bm25_score, get_term_analysis, get_top_keywords) returns a
\* normal result on an instance on which no fit has returned.
C6_UnfittedCalculatorRejects ==
    (/\ kind = "BM25Calculator" /\ Valid
     /\ pc = "returned" /\ last.op # "fit"
     /\ ~hist.returned)
        => last.exc # "none"

\* the outcome the last call has on a freshly constructed engine, with the
\* same parameters, fitted on the documents of the most recent fit
FreshOutcome ==
    IF kind = "BM25Calculator"
    THEN Let(fit(BM25Calculator(calc.k1, calc.b), hist.fitDocs).self,
             LAMBDA fresh :
                CASE last.op = "calculate_bm25_score" ->
                         calculate_bm25_score(fresh, last.args[1], last.args[2])
                  [] last.op = "rank_documents" ->
                         rank_documents(fresh, last.args[1], last.args[2])
                  [] last.op = "get_term_analysis" ->
                         get_term_analysis(fresh, last.args[1], last.args[2],
                                           last.args[3]))
    ELSE Let(ranker_fit(BM25DocumentRanker(ranker.bm25_calc.k1,
                                           ranker.bm25_calc.b),
                        hist.fitDocs).self,
             LAMBDA fresh :
                CASE last.op = "search" ->
                         search(fresh, last.args[1], last.args[2])
                  [] last.op = "explain_ranking" ->
                         explain_ranking(fresh, last.args[1], last.args[2],
                                         last.args[3]))

\* C7: after a not-fitted error or a failed fit([]), once a later fit on a
\* non-empty corpus has returned, every rank, search, score and explain call
\* has the outcome it has on a freshly constructed engine fitted on that
\* corpus.
C7_UsableAfterError ==
    (/\ kind \in BM25Kinds /\ Valid
     /\ pc = "returned"
     /\ last.op \in {"calculate_bm25_score", "rank_documents",
                     "get_term_analysis", "search", "explain_ranking"}
     /\ hist.error /\ hist.lastFit = "returned")
        => (last.exc = FreshOutcome.exc /\ last.val = FreshOutcome.val)

\* C8: on a fitted engine, get_term_analysis and explain_ranking raise the
\* index error for every doc_index outside 0 .. doc_count - 1, the negative
\* ones included.
C8_ExplainRejectsOutOfRange ==
    (/\ kind \in BM25Kinds /\ Valid
     /\ pc = "returned"
     /\ last.op \in {"get_term_analysis", "explain_ranking"}
     /\ hist.goodFit
     /\ last.args[2] \notin 0..(Engine.N - 1))
        => last.exc = "IndexError"

\* the last call returned a score: a score, an explanation, or a ranking
\* that is not empty
ReturnedScore ==
    /\ pc = "returned"
    /\ last.op \in {"calculate_bm25_score", "rank_documents", "search",
                    "get_term_analysis", "explain_ranking"}
    /\ last.exc = "none"
    /\ last.op \in {"rank_documents", "search"} => last.val # <<>>

\* C9: on a BM25 engine constructed with k1 <= 0 or b outside [0, 1], no
\* call ever returns a score.
C9_InvalidParametersRejected ==
    (kind \in BM25Kinds /\ ~ValidParams(Engine.k1, Engine.b)) => ~ReturnedScore

\* the score rank_documents owes document i (0-based) for the query
ScoreOf(query, i) ==
    IF kind = "BM25Calculator"
    THEN calculate_bm25_score(calc, query, i)
    ELSE Return(cosine_similarity(
                    calculate_tfidf_vector(doc_ranker.tfidf_calc, query).val,
                    calculate_tfidf_vector(doc_ranker.tfidf_calc,
                                           doc_ranker.documents[i + 1]).val))

\* `results` is a full ranking of `documents` for the query: one entry
\* (i, documents[i], score of i) per document, scores non-increasing
FullRanking(results, documents, query) ==
    /\ Len(results) = Len(documents)
    /\ {results[j][1] : j \in 1..Len(results)} = 0..(Len(documents) - 1)
    /\ \A j \in 1..Len(results) :
          /\ results[j][2] = documents[results[j][1] + 1]
          /\ ScoreOf(query, results[j][1]) = Return(results[j][3])
    /\ \A j \in 1..(Len(results) - 1) : RLeq(results[j + 1][3], results[j][3])

\* C10: on a fitted engine with valid parameters, rank_documents with
\* top_k = None returns doc_count results whose indices are a permutation of
\* 0 .. doc_count - 1, each (i, documents[i], score of document i), with
\* scores non-increasing.
C10_RankReturnsFullRanking ==
    (/\ kind \in {"BM25Calculator", "DocumentRanker"} /\ Valid
     /\ pc = "returned"
     /\ last.op = "rank_documents" /\ last.args[2] = None
     /\ hist.lastFit = "returned" /\ hist.fitDocs # <<>>)
        => /\ last.exc = "none"
           /\ FullRanking(last.val, Obj.documents, last.args[1])

\* the full ranking rank(query, top_k = None) of the driven engine for the
\* query of the last call
FullRank ==
    CASE kind = "BM25Calculator" -> rank_documents(calc, last.args[1], None)
      [] kind = "BM25DocumentRanker" ->
             rank_documents(ranker.bm25_calc, last.args[1], None)
      [] kind = "DocumentRanker" ->
             document_ranker_rank_documents(doc_ranker, last.args[1], None)

\* the last call was a ranking with top_k an int (search takes the int itself)
RankedTopK ==
    /\ kind \in {"BM25Calculator", "BM25DocumentRanker", "DocumentRanker"}
    /\ pc = "returned"
    /\ \/ last.op = "rank_documents" /\ last.args[2] # None
       \/ last.op = "search"
TopKOfLast == IF last.op = "search" THEN last.args[2] ELSE last.args[2][1]

Min(x, y) == IF x <= y THEN x ELSE y

\* C11: for every query and every top_k = k, rank(query, k) is the first
\* min(k, doc_count) entries of rank(query, None) (and raises what it
\* raises): k above the corpus size returns all documents, k = 0 none.
C11_TopKIsPrefix ==
    (RankedTopK /\ last.exc # NotFitted) =>
        /\ last.exc = FullRank.exc
        /\ last.exc = "none" =>
              last.val = SubSeq(FullRank.val, 1,
                                Min(TopKOfLast, Len(Obj.documents)))

\* rank_documents(query, 1) has returned one entry of a corpus of two
C11_Witness ==
    /\ kind = "BM25Calculator" /\ RankedTopK
    /\ last.args[2] = Some(1) /\ Len(calc.documents) = 2
    /\ last.exc = "none" /\ Len(last.val) = 1

\* the last call returned a ranking
RankingReturned ==
    /\ kind \in {"BM25Calculator", "BM25DocumentRanker", "DocumentRanker"}
    /\ pc = "returned"
    /\ last.op \in {"rank_documents", "search"}
    /\ last.exc = "none"

\* C12: in the output of rank (BM25 and TF-IDF), any two documents with
\* equal score appear in ascending order of their document index.
C12_TiesByIndex ==
    RankingReturned =>
        \A j, l \in 1..Len(last.val) :
            (j < l /\ last.val[j][3] = last.val[l][3])
                => last.val[j][1] < last.val[l][1]

\* a ranking has been returned whose first two entries have equal scores
C12_Witness ==
    /\ RankingReturned /\ kind = "BM25Calculator"
    /\ Len(last.val) >= 2
    /\ last.val[1][3] = last.val[2][3]
    /\ last.val[1][1] < last.val[2][1]

\* the last call returned an explanation
ExplanationReturned ==
    /\ kind \in BM25Kinds
    /\ pc = "returned"
    /\ last.op \in {"get_term_analysis", "explain_ranking"}
    /\ last.exc = "none"

\* the sum of the weighted_score fields of a list of term entries
RECURSIVE SumWeighted(_)
SumWeighted(terms) ==
    IF terms = <<>> THEN RZero
    ELSE RAdd(Head(terms).weighted_score, SumWeighted(Tail(terms)))

\* C13: the total_score of an explanation is the sum of the weighted_score
\* fields of its term entries, and the weighted_score of an entry is its
\* term_score times its query_count, the number of occurrences of the term
\* in the query.
C13_TotalIsSumOfWeighted ==
    ExplanationReturned =>
        /\ last.val.total_score = SumWeighted(last.val.terms)
        /\ \A j \in 1..Len(last.val.terms) :
              /\ last.val.terms[j].query_count =
                     Count(preprocess_text(last.args[1]), last.val.terms[j].term)
              /\ last.val.terms[j].weighted_score =
                     RMul(last.val.terms[j].term_score,
                          RInt(last.val.terms[j].query_count))

\* an explanation has been returned with two entries, one of them for a term
\* that occurs twice in the query and has a term_score that is not 0
C13_Witness ==
    /\ ExplanationReturned
    /\ Len(last.val.terms) = 2
    /\ \E j \in 1..2 :
          /\ last.val.terms[j].query_count = 2
          /\ ~RIsZero(last.val.terms[j].term_score)
    /\ ~RIsZero(last.val.total_score)

\* the BM25Calculator of the driven BM25 object as it was when the last call
\* was made
PreEngine == IF kind = "BM25DocumentRanker" THEN pre.bm25_calc ELSE pre

\* the last call was a fit that returned, with the corpus the engine was
\* already fitted with
RefitSameCorpus ==
    /\ kind \in BM25Kinds
    /\ pc = "returned" /\ last.op = "fit" /\ last.exc = "none"
    /\ PreEngine.documents = last.args[1]

\* the last call was a fit that returned, on a freshly constructed engine
FirstFit ==
    /\ kind \in BM25Kinds
    /\ pc = "returned" /\ last.op = "fit" /\ last.exc = "none"
    /\ PreEngine = BM25Calculator(Engine.k1, Engine.b)

\* engines e1 and e2 have identical IDF tables and identical rank outputs
SameIdfAndRanks(e1, e2) ==
    /\ e1.idf_scores = e2.idf_scores
    /\ \A query \in QueryPool :
          rank_documents(e1, query, None) = rank_documents(e2, query, None)

C17_AvgDocLengthPositive ==
    (/\ kind \in BM25Kinds /\ Valid
     /\ pc = "returned" /\ last.op = "fit" /\ last.exc = "none"
     /\ last.args[1] # <<>>)
        => RLess(RZero, Engine.avg_doc_length)

\* the outcome the last call has on object e of the driven class
Replay(e) ==
    CASE kind = "BM25Calculator" /\ last.op = "calculate_bm25_score" ->
             calculate_bm25_score(e, last.args[1], last.args[2])
      [] kind = "BM25Calculator" /\ last.op = "rank_documents" ->
             rank_documents(e, last.args[1], last.args[2])
      [] kind = "BM25Calculator" /\ last.op = "get_term_analysis" ->
             get_term_analysis(e, last.args[1], last.args[2], last.args[3])
      [] kind = "BM25Calculator" /\ last.op = "get_top_keywords" ->
             get_top_keywords(e, last.args[1], last.args[2], last.args[3])
      [] kind = "BM25DocumentRanker" /\ last.op = "search" ->
             search(e, last.args[1], last.args[2])
      [] kind = "BM25DocumentRanker" /\ last.op = "explain_ranking" ->
             explain_ranking(e, last.args[1], last.args[2], last.args[3])
      [] kind = "BM25DocumentRanker" /\ last.op = "get_corpus_statistics" ->
             get_corpus_statistics(e)
      [] kind = "TFIDFCalculator" /\ last.op = "calculate_tfidf_vector" ->
             calculate_tfidf_vector(e, last.args[1])
      [] kind = "TFIDFCalculator" /\ last.op = "get_top_keywords" ->
             tfidf_get_top_keywords(e, last.args[1], last.args[2])
      [] kind = "DocumentRanker" /\ last.op = "rank_documents" ->
             document_ranker_rank_documents(e, last.args[1], last.args[2])

\* the last call was a query: any method but fit
QueryReturned == pc = "returned" /\ last.op # "fit"

ScoreCalled ==
    kind = "BM25Calculator" /\ pc = "returned" /\ last.op = "calculate_bm25_score"

\* the tokens of the query of the last call, and those of the document it
\* names (a valid index)
QueryTokens == Range(preprocess_text(last.args[1]))
DocTokens == Range(preprocess_text(calc.documents[last.args[2] + 1]))

\* C18: a document that contains none of the query's tokens gets BM25 score
\* exactly 0, and a document containing a query token whose IDF is not 0
\* gets a score that is not 0.
C18_ScoreZeroIffNoOverlap ==
    (/\ ScoreCalled /\ Valid
     /\ hist.lastFit = "returned"
     /\ last.args[2] \in 0..(calc.N - 1))
        => /\ QueryTokens \cap DocTokens = {}
                => (last.exc = "none" /\ last.val = RZero)
           /\ (\E t \in QueryTokens \cap DocTokens :
                  ~RIsZero(calc.idf_scores[t]))
                => (last.exc = "none" /\ ~RIsZero(last.val))

\* the sum over the terms of S of (occurrences of the term in the query)
\* times (term_score of the term for the document), the terms of S being in
\* the vocabulary and none of their term_scores raising
RECURSIVE OccurrenceSum(_, _, _, _, _)
OccurrenceSum(self, query_terms, doc_term_freq, doc_length, S) ==
    IF S = {} THEN RZero
    ELSE Let(CHOOSE x \in S : TRUE, LAMBDA t :
             RAdd(RMul(RInt(Count(query_terms, t)),
                       term_score(self, t, Get(doc_term_freq, t),
                                  doc_length).val.term_score),
                  OccurrenceSum(self, query_terms, doc_term_freq, doc_length,
                                S \ {t})))

\* C20: the BM25 score of a document is the sum of term_score over every
\* query token occurrence: a token repeated n times in the query contributes
\* n times its term_score; a token absent from the vocabulary contributes 0
\* and is skipped without an IDF lookup, so it never raises a lookup error.
C20_ScoreSumsOccurrences ==
    ScoreCalled =>
        /\ last.exc # "KeyError"
        /\ last.exc = "none" =>
              last.val =
                  OccurrenceSum(calc, preprocess_text(last.args[1]),
                      calc.doc_term_freqs[PyIndex(calc.doc_term_freqs, last.args[2])],
                      calc.doc_lengths[PyIndex(calc.doc_lengths, last.args[2])],
                      QueryTokens \cap calc.vocabulary)

\* a score that is not 0 has been returned for a query with a token that
\* occurs twice and is in the vocabulary and a token that is not in it
C20_Witness ==
    /\ ScoreCalled /\ last.exc = "none"
    /\ ~RIsZero(last.val)
    /\ \E t \in QueryTokens \cap calc.vocabulary :
          Count(preprocess_text(last.args[1]), t) = 2
    /\ QueryTokens \ calc.vocabulary # {}

\* the engine holds the IDF table of a fit that returned
IdfFitted == kind = "BM25Calculator" /\ hist.lastFit = "returned"

\* the document frequency of a term in the fitted corpus
FittedDocFreq(term) == DocFreq(term, Processed(calc.documents))

\* C19: in every fitted corpus a term that appears in every document
\* (df = doc_count) has idf < 0, and a term with df = 1 has idf > 0 when
\* doc_count >= 3; the value stored is the logarithm as computed, a negative
\* one included, never clamped to 0.
C19_IdfSign ==
    IdfFitted =>
        \A term \in calc.vocabulary :
            /\ FittedDocFreq(term) = calc.N
                  => RLess(calc.idf_scores[term], RZero)
            /\ (FittedDocFreq(term) = 1 /\ calc.N >= 3)
                  => RLess(RZero, calc.idf_scores[term])
            /\ calc.idf_scores[term] =
                   LogRatio(2 * (calc.N - FittedDocFreq(term)) + 1,
                            2 * FittedDocFreq(term) + 1)

\* a corpus of three documents is fitted, with a term in every document,
\* whose idf is negative, and a term in one document, whose idf is positive
C19_Witness ==
    /\ IdfFitted /\ calc.N = 3
    /\ \E term \in calc.vocabulary :
          FittedDocFreq(term) = 3 /\ RLess(calc.idf_scores[term], RZero)
    /\ \E term \in calc.vocabulary :
          FittedDocFreq(term) = 1 /\ RLess(RZero, calc.idf_scores[term])

\* the engine as the fit in flight leaves it when it runs alone: the new
\* snapshot (the old one while fit has not been called)
NewSnapshot ==
    IF fit_thread.pc = "idle" THEN pre ELSE fit(pre, fit_thread.documents).self

\* run statement by statement and left alone, fit ends in the state the
\* method as a whole ends in
FitStepsAgree == fit_thread.pc = "returned" => calc = NewSnapshot

\* C16: a rank evaluation whose steps interleave with a fit on the same
\* engine never observes a mixture of old and new fitted state: its outcome
\* is the one it has on the complete old snapshot or the one it has on the
\* complete new snapshot.
C16_RefitExclusive ==
    query_thread.pc = "done" =>
        [exc |-> query_thread.exc, val |-> query_thread.val]
            \in {rank_documents(pre, query_thread.query, None),
                 rank_documents(NewSnapshot, query_thread.query, None)}

\* calculate_tfidf_vector(text) was called on a TFIDFCalculator whose
\* documents list is not empty
VectorCalled ==
    /\ kind = "TFIDFCalculator"
    /\ pc = "returned" /\ last.op = "calculate_tfidf_vector"
    /\ pre.documents # <<>>

\* the tokens of the text of that call
TextTokens == preprocess_text(last.args[1])

\* C21: on a fitted TF-IDF engine, calculate_tfidf_vector(text) returns a
\* mapping whose key set is exactly the distinct tokens of text that occur in
\* the fitted corpus, each mapped to (occurrences in text / token count of
\* text) times the corpus IDF log(N / df) of the token.
C21_VectorOverCorpusTerms ==
    VectorCalled =>
        /\ last.exc = "none"
        /\ DOMAIN last.val = Range(TextTokens) \cap Tokens(pre.documents)
        /\ \A term \in DOMAIN last.val :
              last.val[term] =
                  RMul(Rat(Count(TextTokens, term), Len(TextTokens)),
                       LogRatio(Len(pre.documents),
                                DocFreq(term, pre.documents)))

\* get_top_keywords(query, top_k) was called on a BM25Calculator with valid
\* parameters
KeywordsCalled ==
    /\ kind = "BM25Calculator" /\ Valid
    /\ pc = "returned" /\ last.op = "get_top_keywords"

\* the documents (1-based) in which the term has tf > 0
DocsWith(self, term) ==
    {d \in 1..Len(self.doc_term_freqs) : Get(self.doc_term_freqs[d], term) > 0}

\* the sum of the term's term_score over the documents of S
RECURSIVE ContributionSum(_, _, _)
ContributionSum(self, term, S) ==
    IF S = {} THEN RZero
    ELSE Let(CHOOSE x \in S : TRUE, LAMBDA d :
             RAdd(term_score(self, term, Get(self.doc_term_freqs[d], term),
                             self.doc_lengths[d]).val.term_score,
                  ContributionSum(self, term, S \ {d})))

\* the mean of the term's term_score over the documents with tf > 0 only
MeanContribution(self, term) ==
    RDiv(ContributionSum(self, term, DocsWith(self, term)),
         RInt(Cardinality(DocsWith(self, term))))

\* the pairs are in non-increasing order of mean, for terms all distinct,
\* each with the mean over the documents that hold the term
KeywordPairs(self, pairs, terms) ==
    /\ \A i \in 1..Len(pairs) :
          /\ pairs[i][1] \in terms
          /\ DocsWith(self, pairs[i][1]) # {}
          /\ pairs[i][2] = MeanContribution(self, pairs[i][1])
    /\ \A i, j \in 1..Len(pairs) :
          i < j => /\ pairs[i][1] # pairs[j][1]
                   /\ RLeq(pairs[j][2], pairs[i][2])

\* C22: BM25 get_top_keywords(query, top_k) returns at most top_k
\* (term, mean) pairs in non-increasing order of mean, one per distinct query
\* term present in the vocabulary, the mean being the sum of the term's
\* term_score over the documents with tf > 0 divided by the number of those
\* documents only.
C22_TopKeywordsMeans ==
    KeywordsCalled =>
        /\ last.exc = "none"
        /\ Len(last.val) =
              Min(last.args[2],
                  Cardinality(Range(preprocess_text(last.args[1]))
                                \cap pre.vocabulary))
        /\ KeywordPairs(pre, last.val,
                        Range(preprocess_text(last.args[1])) \cap pre.vocabulary)

\* a freshly constructed instance of the driven class, with the parameters of
\* the driven object, after fit(documents)
FreshFitted(documents) ==
    CASE kind = "BM25Calculator" ->
             fit(BM25Calculator(calc.k1, calc.b), documents).self
      [] kind = "BM25DocumentRanker" ->
             ranker_fit(BM25DocumentRanker(ranker.bm25_calc.k1,
                                           ranker.bm25_calc.b), documents).self
      [] kind = "TFIDFCalculator" -> tfidf_fit(TFIDFCalculator, documents).self
      [] kind = "DocumentRanker" ->
             document_ranker_fit(DocumentRanker, documents).self

\* a query has returned or raised on an object whose most recent fit call
\* returned, on a corpus that is not empty
QueryAfterFit ==
    /\ QueryReturned /\ Valid
    /\ hist.lastFit = "returned" /\ hist.fitDocs # <<>>

\* C23: history independence of a re-fit: whatever was fitted before, after
\* fit(B) with B not empty every query (rank, explanation, top keywords,
\* TF-IDF vector, corpus statistics) has the outcome, value or error, that it
\* has on a freshly constructed instance with the same parameters after
\* fit(B).
C23_RefitHistoryIndependent ==
    QueryAfterFit =>
        [exc |-> last.exc, val |-> last.val] = Replay(FreshFitted(hist.fitDocs))

\* get_term_analysis(query, doc_index) was called with a valid index on a
\* BM25Calculator with valid parameters whose most recent fit call returned,
\* on a corpus that is not empty
AnalysisCalled ==
    /\ kind = "BM25Calculator" /\ Valid
    /\ pc = "returned" /\ last.op = "get_term_analysis"
    /\ hist.lastFit = "returned" /\ hist.fitDocs # <<>>
    /\ last.args[2] \in 0..(Len(hist.fitDocs) - 1)

\* C24: the explanation agrees with the ranking: for every fitted corpus,
\* query and valid doc_index, get_term_analysis(query, doc_index) ends as
\* calculate_bm25_score(query, doc_index) does, and its total_score is the
\* score returned, the one rank_documents reports for the document.
C24_ExplanationAgreesWithScore ==
    AnalysisCalled =>
        Let(calculate_bm25_score(pre, last.args[1], last.args[2]), LAMBDA s :
            /\ last.exc = s.exc
            /\ last.exc = "none" => last.val.total_score = s.val)

\* a scoring method was called on a BM25Calculator with valid parameters
\* whose most recent fit call returned, on a corpus that is not empty; the
\* methods that take a document index were given a valid one
ScoringCalled ==
    /\ kind = "BM25Calculator" /\ Valid
    /\ pc = "returned"
    /\ hist.lastFit = "returned" /\ hist.fitDocs # <<>>
    /\ \/ last.op \in {"rank_documents", "get_top_keywords"}
       \/ /\ last.op \in {"calculate_bm25_score", "get_term_analysis"}
          /\ last.args[2] \in 0..(Len(hist.fitDocs) - 1)

\* C25: no arithmetic failure after a successful fit: for valid parameters
\* and any non-empty corpus accepted by fit, documents without tokens and
\* b = 1 included, every call of calculate_bm25_score, rank_documents,
\* get_term_analysis (valid index) and get_top_keywords returns a result;
\* no division by avg_doc_length or by tf + k1 * length_norm raises.
C25_NoArithmeticFailure ==
    ScoringCalled => last.exc = "none"

\* the calculator holds a complete fitted corpus that is not empty
CompleteCorpus(self) ==
    /\ self.N >= 1
    /\ Len(self.documents) = self.N
    /\ Len(self.doc_lengths) = self.N
    /\ Len(self.doc_term_freqs) = self.N

\* C26: in every reachable state of a BM25DocumentRanker, after any sequence
\* of fit calls that returned or raised, fitted = True implies that the
\* calculator holds a complete non-empty fitted corpus: N >= 1 and documents,
\* doc_lengths and doc_term_freqs all have length N; so a search that
\* returns has min(top_k, N) results, N >= 1, and get_corpus_statistics
\* returns without error.
C26_FittedMeansCompleteCorpus ==
    (kind = "BM25DocumentRanker" /\ Valid) =>
        /\ ranker.fitted => CompleteCorpus(ranker.bm25_calc)
        /\ (pc = "returned" /\ pre.fitted /\ last.op = "search"
              /\ last.exc = "none") =>
              /\ pre.bm25_calc.N >= 1
              /\ Len(last.val) = Min(last.args[2], pre.bm25_calc.N)
        /\ (pc = "returned" /\ pre.fitted
              /\ last.op = "get_corpus_statistics") => last.exc = "none"

=============================================================================
